---- MODULE Spec2Model ----
(***************************************************************************)
(* Model of FmpDevicePkg/Library/FmpPayloadHeaderLibV1/FmpPayloadHeaderLib.c *)
(*                                                                         *)
(* The library reads a packed FMP_PAYLOAD_HEADER at the front of a caller  *)
(* owned buffer (three accessors) and walks the FW_DEPENDENCY list that    *)
(* follows it (VerifyFmpPayloadDependencies), asking GetFmpAndDescriptor   *)
(* for the descriptor of every component a dependency names.               *)
(*                                                                         *)
(* Widths are scaled down so that the state space is finite: a header      *)
(* field (UINT32) is Uint32Bits wide and a native word (UINTN / INTN) is   *)
(* UintnBits wide.  The native word is wider than a header field, as on    *)
(* the 64-bit targets (X64, AARCH64), so that (INTN)HeaderSize is never    *)
(* negative; the layout constants (16 and 24 bytes) keep their values.     *)
(***************************************************************************)
EXTENDS Integers, Sequences, FiniteSets, TLC

(***************************************************************************)
(* Bounds of the model                                                     *)
(***************************************************************************)
\* largest number of FW_DEPENDENCY entries a header of the model declares
MaxDeps == 2

\* scaled width of a UINT32 header field
Uint32Bits == 7

\* scaled width of UINTN / INTN (wider than a header field)
UintnBits == Uint32Bits + 1

UintnModulus == 2 ^ UintnBits

\* values of RequiredVersionInSystem the payloads of the model use
RequiredVersions == {1, 2}

\* versions an installed component may report (covers <, = and = + 1)
SystemVersions == {1, 2}

\* the components (FmpInstance GUID, ImageIndex) a dependency may name
Components ==
  { [FmpInstance |-> 1, ImageIndex |-> 1], [FmpInstance |-> 2, ImageIndex |-> 1] }

(***************************************************************************)
(* Layout and constants of the source                                      *)
(***************************************************************************)
\* sizeof (FMP_PAYLOAD_HEADER): four packed UINT32
SizeofFmpPayloadHeader == 4 + 4 + 4 + 4

\* sizeof (FW_DEPENDENCY): EFI_GUID, UINT32, UINT8, UINT8, UINT16, packed
SizeofFwDependency == 16 + 4 + 1 + 1 + 2

FW_DEPENDENCY_FLAG_REQUIRED == 1

FW_DEPENDENCY_FLAG_MATCH_EXACT_VERSION == 2

\* SIGNATURE_32 (A, B, C, D): four characters packed little-endian
SIGNATURE_32(A, B, C, D) == A + B * 256 + C * 65536 + D * 16777216

\* 'M' = 77, 'S' = 83, '1' = 49
FMP_PAYLOAD_HEADER_SIGNATURE == SIGNATURE_32(77, 83, 83, 49)

\* a signature of another structure version ('M','S','S','2')
OtherSignature == SIGNATURE_32(77, 83, 83, 50)

NULL == 0

EFI_SUCCESS == "EFI_SUCCESS"

EFI_INVALID_PARAMETER == "EFI_INVALID_PARAMETER"

EFI_NOT_FOUND == "EFI_NOT_FOUND"

\* EFI_ERROR (Status)
EFI_ERROR(St) == St # EFI_SUCCESS

\* FlagSet comparing the whole Flags field with the mask
FlagsEqual(Flags, Bit) == Flags = Bit

\* (Flags & Bit) == Bit, for a single-bit mask
FlagSet(Flags, Bit) == (Flags \div Bit) % 2 = 1

(***************************************************************************)
(* Native arithmetic                                                       *)
(***************************************************************************)
\* a value reduced to UINTN
ToUintn(x) == x % UintnModulus

\* a UINTN bit pattern read as INTN (two's complement)
ToIntn(u) == IF u >= UintnModulus \div 2 THEN u - UintnModulus ELSE u

(***************************************************************************)
(* State                                                                   *)
(***************************************************************************)
VARIABLES
  Header,            \* the caller's pointer to the payload (NULL or an address)
  VerifiedIsNull,    \* whether the caller passes NULL for Verified
  FmpPayloadSize,    \* the size the caller declares for the payload
  Payload,           \* the FMP_PAYLOAD_HEADER fields stored at Header
  DependencyList,    \* the FW_DEPENDENCY entries stored after the fixed header
  System,            \* what GetFmpAndDescriptor finds for each component
  pc,                \* position in VerifyFmpPayloadDependencies
  Status,            \* local Status
  Verified,          \* the caller's *Verified slot
  NumberOfDeps,      \* local NumberOfDeps
  Dep,               \* local Dep, as the 1-based index of the entry it points to
  FmpDesc,           \* local FmpDesc: NullDesc or the descriptor last obtained
  Result,            \* the value VerifyFmpPayloadDependencies returned
  Calls,             \* entries GetFmpAndDescriptor was called for, in call order
  Pool,              \* ids of descriptors allocated and not yet freed
  Allocated,         \* number of descriptors allocated so far
  ReadEnd,           \* end offset of the payload bytes VerifyFmpPayloadDependencies read
  Ret,               \* the status each accessor returned last ("NONE": not called)
  Out,               \* the caller's variable behind each accessor's output pointer
  Call               \* each accessor's last call: its output pointer, what it read and wrote

vars ==
  << Header, VerifiedIsNull, FmpPayloadSize, Payload, DependencyList, System,
     pc, Status, Verified, NumberOfDeps, Dep, FmpDesc, Result, Calls, Pool,
     Allocated, ReadEnd, Ret, Out, Call >>

verifyLocals ==
  << pc, Status, Verified, NumberOfDeps, Dep, FmpDesc, Result, Calls, Pool,
     Allocated, ReadEnd >>

accessorState == << Ret, Out, Call >>

inputs ==
  << Header, VerifiedIsNull, FmpPayloadSize, Payload, DependencyList, System >>

\* FmpDesc == NULL
NullDesc == [id |-> 0, Version |-> 0]

\* a component that is not installed
NotInstalled == [found |-> FALSE, Version |-> 0]

\* what the system may hold for one component
Installations ==
  {NotInstalled} \cup { [found |-> TRUE, Version |-> v] : v \in SystemVersions }

\* the FW_DEPENDENCY values of the model
FwDependencies ==
  [ FmpInstance : { c.FmpInstance : c \in Components },
    RequiredVersionInSystem : RequiredVersions,
    ImageIndex : { c.ImageIndex : c \in Components },
    Reserved : {0},
    Flags : 0 .. 3 ]

\* HeaderSize values around every multiple of the entry size, and two below
\* the fixed header's size
HeaderSizes ==
  {0, SizeofFmpPayloadHeader - 1}
    \cup UNION { { SizeofFmpPayloadHeader + n * SizeofFwDependency - 1,
                   SizeofFmpPayloadHeader + n * SizeofFwDependency,
                   SizeofFmpPayloadHeader + n * SizeofFwDependency + 1 }
                 : n \in 0 .. MaxDeps }

\* the number of whole entries the bytes after the fixed header hold
EntriesIn(HeaderSize) ==
  IF HeaderSize > SizeofFmpPayloadHeader
  THEN (HeaderSize - SizeofFmpPayloadHeader) \div SizeofFwDependency
  ELSE 0

\* all sequences of length n over S
RECURSIVE SeqsOfLen(_, _)
SeqsOfLen(S, n) ==
  IF n = 0 THEN { <<>> }
  ELSE { Append(q, e) : q \in SeqsOfLen(S, n - 1), e \in S }

\* an address the payload buffer of the model starts at
BufferAddress == 2 ^ Uint32Bits

\* the three accessors, named by the field they return
Accessors == {"HeaderSize", "FwVersion", "LowestSupportedVersion"}

\* no accessor was called yet; the callers' variables hold nothing the library wrote
AccessorsInit ==
  /\ Ret = [a \in Accessors |-> "NONE"]
  /\ Out = [a \in Accessors |-> [written |-> FALSE, value |-> 0]]
  /\ Call = [a \in Accessors |-> [outIsNull |-> FALSE, read |-> {}, wrote |-> FALSE]]

\* the locals as VerifyFmpPayloadDependencies initialises them (lines 234-239)
VerifyLocalsInit ==
  /\ pc = "start"
  /\ Status = EFI_SUCCESS
  /\ Verified = "UNWRITTEN"
  /\ NumberOfDeps = 0
  /\ Dep = 0
  /\ FmpDesc = NullDesc
  /\ Result = "NONE"
  /\ Calls = <<>>
  /\ Pool = {}
  /\ Allocated = 0
  /\ ReadEnd = 0

Init ==
  /\ Header \in {NULL, BufferAddress}
  /\ VerifiedIsNull = FALSE
  /\ FmpPayloadSize = UintnModulus - 1
  /\ System \in [Components -> Installations]
  /\ \/ /\ Header = NULL
        /\ Payload = [Signature |-> 0, HeaderSize |-> 0, FwVersion |-> 0,
                      LowestSupportedVersion |-> 0]
        /\ DependencyList = <<>>
     \/ /\ Header # NULL
        /\ Payload \in [ Signature : {FMP_PAYLOAD_HEADER_SIGNATURE, OtherSignature},
                         HeaderSize : HeaderSizes,
                         FwVersion : {1},
                         LowestSupportedVersion : {1} ]
        /\ DependencyList \in SeqsOfLen(FwDependencies, EntriesIn(Payload.HeaderSize))
  /\ VerifyLocalsInit
  /\ AccessorsInit

(***************************************************************************)
(* VerifyFmpPayloadDependencies                                            *)
(***************************************************************************)
\* DependencyBytes with the subtraction of the fixed header's size left out
DependencyBytesOfWholeHeader(HeaderSize) == ToIntn(ToUintn(HeaderSize))

\* line 252: (INTN)HeaderSize - sizeof (FMP_PAYLOAD_HEADER), computed in UINTN
\* and stored in an INTN
DependencyBytes(HeaderSize) ==
  ToIntn(ToUintn(HeaderSize - SizeofFmpPayloadHeader))

\* DependencySizeInvalid with the comparison inverted
DependencySizeInvalidInverted(Bytes) == (Bytes % SizeofFwDependency) = 0

\* line 258: the dependency section is not a whole number of entries
DependencySizeInvalid(Bytes) == (Bytes % SizeofFwDependency) # 0

\* DependencyCount rounding an exact multiple down to one entry less
DependencyCountExcludingLast(Bytes) == (Bytes - 1) \div SizeofFwDependency

\* line 257
DependencyCount(Bytes) == Bytes \div SizeofFwDependency

\* lines 261, 282, 295, 306, 326: what the caller's variable holds after
\* *Verified = v; a store through a NULL Verified does not reach it
VerifiedAfterStore(v) == IF VerifiedIsNull THEN Verified ELSE v

\* where control is after *Verified = v: at Target, or nowhere when the store
\* through a NULL Verified faults (the behaviour of that store is undefined)
AfterStore(Target) == IF VerifiedIsNull THEN {Target, "fault"} ELSE {Target}

\* offset of the byte after FMP_PAYLOAD_HEADER.Signature
SignatureEnd == 4

\* offset of the byte after FMP_PAYLOAD_HEADER.HeaderSize
HeaderSizeEnd == 4 + 4

\* offset in the payload of the i-th FW_DEPENDENCY (line 268, line 322)
DependencyOffset(i) == SizeofFmpPayloadHeader + (i - 1) * SizeofFwDependency

\* offset in a FW_DEPENDENCY of the byte after RequiredVersionInSystem
RequiredVersionEnd == 16 + 4

\* offset in a FW_DEPENDENCY of the byte after ImageIndex
ImageIndexEnd == 16 + 4 + 1

\* offset in a FW_DEPENDENCY of the byte after Flags
FlagsEnd == 16 + 4 + 1 + 1 + 2

\* the larger of two offsets
MaxOffset(a, b) == IF a >= b THEN a ELSE b

\* lines 241-268: parameter and signature checks, size of the dependency list
VerifyBegin ==
  /\ pc = "start"
  /\ IF Header = NULL
     THEN /\ pc' = "done"
          /\ Result' = EFI_INVALID_PARAMETER
          /\ UNCHANGED << Status, Verified, NumberOfDeps, Dep, ReadEnd >>
     ELSE IF Payload.Signature # FMP_PAYLOAD_HEADER_SIGNATURE
     THEN /\ pc' = "done"
          /\ Result' = EFI_INVALID_PARAMETER
          /\ ReadEnd' = SignatureEnd
          /\ UNCHANGED << Status, Verified, NumberOfDeps, Dep >>
     ELSE LET Bytes == DependencyBytes(Payload.HeaderSize) IN
          /\ ReadEnd' = HeaderSizeEnd
          /\ IF Bytes > 0
             THEN IF DependencySizeInvalid(Bytes)
                  THEN /\ Verified' = VerifiedAfterStore("FALSE")
                       /\ Status' = EFI_INVALID_PARAMETER
                       /\ NumberOfDeps' = DependencyCount(Bytes)
                       /\ pc' \in AfterStore("EXIT")
                       /\ UNCHANGED << Dep, Result >>
                  ELSE /\ NumberOfDeps' = DependencyCount(Bytes)
                       /\ Dep' = 1
                       /\ pc' = "while"
                       /\ UNCHANGED << Status, Verified, Result >>
             ELSE /\ pc' = "verified"
                  /\ UNCHANGED << Status, Verified, NumberOfDeps, Dep, Result >>
  /\ UNCHANGED << inputs, accessorState, FmpDesc, Calls, Pool, Allocated >>

\* the component entry e names
ComponentOf(e) == [FmpInstance |-> e.FmpInstance, ImageIndex |-> e.ImageIndex]

\* lines 269-271: the loop test and the call of GetFmpAndDescriptor for *Dep.
\* A found component yields a freshly allocated descriptor in FmpDesc; a
\* failed lookup returns an error and either leaves FmpDesc or clears it.
GetFmpAndDescriptor ==
  /\ pc = "while"
  /\ NumberOfDeps > 0
  /\ LET Found == System[ComponentOf(DependencyList[Dep])] IN
     IF Found.found
     THEN /\ Status' = EFI_SUCCESS
          /\ FmpDesc' = [id |-> Allocated + 1, Version |-> Found.Version]
          /\ Pool' = Pool \cup {Allocated + 1}
          /\ Allocated' = Allocated + 1
     ELSE /\ Status' = EFI_NOT_FOUND
          /\ FmpDesc' \in {FmpDesc, NullDesc}
          /\ UNCHANGED << Pool, Allocated >>
  /\ Calls' = Append(Calls, Dep)
  /\ ReadEnd' = MaxOffset(ReadEnd, DependencyOffset(Dep) + ImageIndexEnd)
  /\ pc' = "check"
  /\ UNCHANGED << inputs, accessorState, Verified, NumberOfDeps, Dep, Result >>

\* RequiredFlagSet testing the exact-match bit instead of the required bit
RequiredFlagTestsExactBit(e) ==
  FlagSet(e.Flags, FW_DEPENDENCY_FLAG_MATCH_EXACT_VERSION)

\* line 279
RequiredFlagSet(e) == FlagSet(e.Flags, FW_DEPENDENCY_FLAG_REQUIRED)

\* OlderThanRequired with >= for >
OlderOrSameAsRequired(e, Desc) == e.RequiredVersionInSystem >= Desc.Version

\* line 292
OlderThanRequired(e, Desc) == e.RequiredVersionInSystem > Desc.Version

\* line 303
NotExactMatch(e, Desc) ==
  /\ FlagSet(e.Flags, FW_DEPENDENCY_FLAG_MATCH_EXACT_VERSION)
  /\ e.RequiredVersionInSystem # Desc.Version

\* DependencyFailedStatus without the assignment of EFI_SUCCESS
DependencyFailedStatusKept(St) == St

\* lines 283, 296, 307: the Status a failed dependency leaves
DependencyFailedStatus(St) == EFI_SUCCESS

\* lines 272-323: the verdict on the entry just looked up, and the step to the
\* next entry
CheckDependency ==
  /\ pc = "check"
  /\ LET e == DependencyList[Dep]
         Failed == IF EFI_ERROR(Status)
                   THEN RequiredFlagSet(e)
                   ELSE OlderThanRequired(e, FmpDesc) \/ NotExactMatch(e, FmpDesc)
         \* line 292 leaves before Flags is read; every other path reads it
         FieldsEnd == IF ~EFI_ERROR(Status) /\ OlderThanRequired(e, FmpDesc)
                      THEN RequiredVersionEnd ELSE FlagsEnd
     IN /\ ReadEnd' = MaxOffset(ReadEnd, DependencyOffset(Dep) + FieldsEnd)
        /\ IF Failed
           THEN /\ Verified' = VerifiedAfterStore("FALSE")
                /\ Status' = DependencyFailedStatus(Status)
                /\ pc' \in AfterStore("EXIT")
                /\ UNCHANGED << NumberOfDeps, Dep >>
           ELSE /\ Status' = IF EFI_ERROR(Status) THEN Status ELSE EFI_SUCCESS
                /\ NumberOfDeps' = NumberOfDeps - 1
                /\ Dep' = Dep + 1
                /\ pc' = IF NumberOfDeps - 1 > 0 THEN "while" ELSE "verified"
                /\ UNCHANGED Verified
  /\ UNCHANGED << inputs, accessorState, FmpDesc, Result, Calls, Pool, Allocated >>

\* line 326: every dependency was met, or there was none
AllVerified ==
  /\ pc = "verified"
  /\ Verified' = VerifiedAfterStore("TRUE")
  /\ pc' \in AfterStore("EXIT")
  /\ UNCHANGED << inputs, accessorState, Status, NumberOfDeps, Dep, FmpDesc,
                  Result, Calls, Pool, Allocated, ReadEnd >>

\* lines 328-333: the EXIT label frees the descriptor FmpDesc points to
Exit ==
  /\ pc = "EXIT"
  /\ Pool' = IF FmpDesc # NullDesc THEN Pool \ {FmpDesc.id} ELSE Pool
  /\ Result' = Status
  /\ pc' = "done"
  /\ UNCHANGED << inputs, accessorState, Status, Verified, NumberOfDeps, Dep,
                  FmpDesc, Calls, Allocated, ReadEnd >>

Next ==
  \/ VerifyBegin
  \/ GetFmpAndDescriptor
  \/ CheckDependency
  \/ AllVerified
  \/ Exit

Spec == Init /\ [][Next]_vars

(***************************************************************************)
(* VerifyFmpPayloadDependencies as a function of its arguments and of what  *)
(* GetFmpAndDescriptor finds, for a non-NULL Verified                       *)
(***************************************************************************)
\* lines 272-309: entry e fails on what the lookup returned
DependencyFailed(e, Found) ==
  IF ~Found.found
  THEN RequiredFlagSet(e)
  ELSE OlderThanRequired(e, Found) \/ NotExactMatch(e, Found)

\* lines 269-323: the loop over n entries of List from the i-th on, entered
\* with Status St; Calls lists the entries GetFmpAndDescriptor was called for
RECURSIVE WalkDependencies(_, _, _, _, _)
WalkDependencies(List, Sys, i, n, St) ==
  IF n <= 0
  THEN [Result |-> St, Verified |-> "TRUE", Calls |-> <<>>]
  ELSE LET e == List[i]
           Found == Sys[ComponentOf(e)]
           Looked == IF Found.found THEN EFI_SUCCESS ELSE EFI_NOT_FOUND
       IN IF DependencyFailed(e, Found)
          THEN [Result |-> DependencyFailedStatus(Looked), Verified |-> "FALSE",
                Calls |-> << i >>]
          ELSE LET Rest == WalkDependencies(List, Sys, i + 1, n - 1, Looked)
               IN [Rest EXCEPT !.Calls = << i >> \o Rest.Calls]

\* lines 241-333: the status returned, what *Verified holds and the lookups made
VerifyOutcome(Hdr, P, List, Sys) ==
  IF Hdr = NULL \/ P.Signature # FMP_PAYLOAD_HEADER_SIGNATURE
  THEN [Result |-> EFI_INVALID_PARAMETER, Verified |-> "UNWRITTEN", Calls |-> <<>>]
  ELSE LET Bytes == DependencyBytes(P.HeaderSize) IN
       IF Bytes > 0
       THEN IF DependencySizeInvalid(Bytes)
            THEN [Result |-> EFI_INVALID_PARAMETER, Verified |-> "FALSE",
                  Calls |-> <<>>]
            ELSE WalkDependencies(List, Sys, 1, DependencyCount(Bytes), EFI_SUCCESS)
       ELSE [Result |-> EFI_SUCCESS, Verified |-> "TRUE", Calls |-> <<>>]

(***************************************************************************)
(* The three accessors                                                     *)
(***************************************************************************)
\* HeaderSizeBoundsFail without the test for a wrapped end of the fixed header
HeaderSizeBoundsFailNoWrapTest(Hdr, PayloadSize, P) ==
  \/ ToUintn(Hdr + SizeofFmpPayloadHeader) >= ToUintn(Hdr + PayloadSize)
  \/ P.HeaderSize < SizeofFmpPayloadHeader

\* lines 105-107: the fixed header does not fit the declared payload, or the
\* HeaderSize field is smaller than the fixed header
HeaderSizeBoundsFail(Hdr, PayloadSize, P) ==
  \/ ToUintn(Hdr + SizeofFmpPayloadHeader) < Hdr
  \/ ToUintn(Hdr + SizeofFmpPayloadHeader) >= ToUintn(Hdr + PayloadSize)
  \/ P.HeaderSize < SizeofFmpPayloadHeader

\* GetFmpPayloadHeaderSizeStatus without the test of the signature
GetFmpPayloadHeaderSizeStatusNoSignature(Hdr, PayloadSize, P, SizeIsNull) ==
  IF Hdr = NULL \/ SizeIsNull THEN EFI_INVALID_PARAMETER
  ELSE IF \/ ToUintn(Hdr + SizeofFmpPayloadHeader) < Hdr
          \/ ToUintn(Hdr + SizeofFmpPayloadHeader) >= ToUintn(Hdr + PayloadSize)
          \/ P.HeaderSize < SizeofFmpPayloadHeader
       THEN EFI_INVALID_PARAMETER
  ELSE EFI_SUCCESS

\* lines 100-116: the status GetFmpPayloadHeaderSize returns
GetFmpPayloadHeaderSizeStatus(Hdr, PayloadSize, P, SizeIsNull) ==
  IF Hdr = NULL \/ SizeIsNull THEN EFI_INVALID_PARAMETER
  ELSE IF HeaderSizeBoundsFail(Hdr, PayloadSize, P) THEN EFI_INVALID_PARAMETER
  ELSE IF P.Signature # FMP_PAYLOAD_HEADER_SIGNATURE THEN EFI_INVALID_PARAMETER
  ELSE EFI_SUCCESS

\* VersionBoundsFail without the comparison against the declared payload size
VersionBoundsFailNoPayloadSize(Hdr, PayloadSize, P) ==
  \/ ToUintn(Hdr + SizeofFmpPayloadHeader) < Hdr
  \/ P.HeaderSize < SizeofFmpPayloadHeader

\* lines 150-152
VersionBoundsFail(Hdr, PayloadSize, P) ==
  \/ ToUintn(Hdr + SizeofFmpPayloadHeader) < Hdr
  \/ ToUintn(Hdr + SizeofFmpPayloadHeader) >= ToUintn(Hdr + PayloadSize)
  \/ P.HeaderSize < SizeofFmpPayloadHeader

\* lines 145-161: the status GetFmpPayloadHeaderVersion returns
GetFmpPayloadHeaderVersionStatus(Hdr, PayloadSize, P, VersionIsNull) ==
  IF Hdr = NULL \/ VersionIsNull THEN EFI_INVALID_PARAMETER
  ELSE IF VersionBoundsFail(Hdr, PayloadSize, P) THEN EFI_INVALID_PARAMETER
  ELSE IF P.Signature # FMP_PAYLOAD_HEADER_SIGNATURE THEN EFI_INVALID_PARAMETER
  ELSE EFI_SUCCESS

\* LowestSupportedVersionBoundsFail with > for >= in the test of the payload's end
LowestSupportedVersionBoundsFailAtEnd(Hdr, PayloadSize, P) ==
  \/ ToUintn(Hdr + SizeofFmpPayloadHeader) < Hdr
  \/ ToUintn(Hdr + SizeofFmpPayloadHeader) > ToUintn(Hdr + PayloadSize)
  \/ P.HeaderSize < SizeofFmpPayloadHeader

\* lines 195-197
LowestSupportedVersionBoundsFail(Hdr, PayloadSize, P) ==
  \/ ToUintn(Hdr + SizeofFmpPayloadHeader) < Hdr
  \/ ToUintn(Hdr + SizeofFmpPayloadHeader) >= ToUintn(Hdr + PayloadSize)
  \/ P.HeaderSize < SizeofFmpPayloadHeader

\* lines 190-206: the status GetFmpPayloadHeaderLowestSupportedVersion returns
GetFmpPayloadHeaderLowestSupportedVersionStatus(Hdr, PayloadSize, P, LsvIsNull) ==
  IF Hdr = NULL \/ LsvIsNull THEN EFI_INVALID_PARAMETER
  ELSE IF LowestSupportedVersionBoundsFail(Hdr, PayloadSize, P)
       THEN EFI_INVALID_PARAMETER
  ELSE IF P.Signature # FMP_PAYLOAD_HEADER_SIGNATURE THEN EFI_INVALID_PARAMETER
  ELSE EFI_SUCCESS

\* lines 100-115: the header fields GetFmpPayloadHeaderSize reads, in the
\* order of its tests (|| evaluates left to right and stops at the first
\* true operand)
GetFmpPayloadHeaderSizeReads(Hdr, PayloadSize, P, SizeIsNull) ==
  IF Hdr = NULL \/ SizeIsNull THEN {}
  ELSE IF \/ ToUintn(Hdr + SizeofFmpPayloadHeader) < Hdr
          \/ ToUintn(Hdr + SizeofFmpPayloadHeader) >= ToUintn(Hdr + PayloadSize)
       THEN {}
  ELSE IF P.HeaderSize < SizeofFmpPayloadHeader THEN {"HeaderSize"}
  ELSE {"HeaderSize", "Signature"}

\* lines 145-160: the header fields GetFmpPayloadHeaderVersion reads
GetFmpPayloadHeaderVersionReads(Hdr, PayloadSize, P, VersionIsNull) ==
  IF Hdr = NULL \/ VersionIsNull THEN {}
  ELSE IF \/ ToUintn(Hdr + SizeofFmpPayloadHeader) < Hdr
          \/ ToUintn(Hdr + SizeofFmpPayloadHeader) >= ToUintn(Hdr + PayloadSize)
       THEN {}
  ELSE IF P.HeaderSize < SizeofFmpPayloadHeader THEN {"HeaderSize"}
  ELSE IF P.Signature # FMP_PAYLOAD_HEADER_SIGNATURE THEN {"HeaderSize", "Signature"}
  ELSE {"HeaderSize", "Signature", "FwVersion"}

\* lines 190-205: the header fields GetFmpPayloadHeaderLowestSupportedVersion
\* reads
GetFmpPayloadHeaderLowestSupportedVersionReads(Hdr, PayloadSize, P, LsvIsNull) ==
  IF Hdr = NULL \/ LsvIsNull THEN {}
  ELSE IF \/ ToUintn(Hdr + SizeofFmpPayloadHeader) < Hdr
          \/ ToUintn(Hdr + SizeofFmpPayloadHeader) >= ToUintn(Hdr + PayloadSize)
       THEN {}
  ELSE IF P.HeaderSize < SizeofFmpPayloadHeader THEN {"HeaderSize"}
  ELSE IF P.Signature # FMP_PAYLOAD_HEADER_SIGNATURE THEN {"HeaderSize", "Signature"}
  ELSE {"HeaderSize", "Signature", "LowestSupportedVersion"}

\* AccessorReturns keeping the status of the last call in one variable that
\* all three accessors share
AccessorReturnsSharedStatus(a, St, Value, IsNull, Read) ==
  /\ Ret' = [b \in Accessors |-> IF b = a \/ Ret[b] # "NONE" THEN St ELSE "NONE"]
  /\ Out' = IF St = EFI_SUCCESS
            THEN [Out EXCEPT ![a] = [written |-> TRUE, value |-> Value]]
            ELSE Out
  /\ Call' = [Call EXCEPT ![a] = [outIsNull |-> IsNull, read |-> Read,
                                  wrote |-> St = EFI_SUCCESS]]
  /\ UNCHANGED << inputs, verifyLocals >>

\* an accessor called with output pointer IsNull returns St after reading the
\* header fields Read; on success it stores Value through its output pointer.
\* Nothing else changes: the payload is CONST and the accessors keep no state.
AccessorReturns(a, St, Value, IsNull, Read) ==
  /\ Ret' = [Ret EXCEPT ![a] = St]
  /\ Out' = IF St = EFI_SUCCESS
            THEN [Out EXCEPT ![a] = [written |-> TRUE, value |-> Value]]
            ELSE Out
  /\ Call' = [Call EXCEPT ![a] = [outIsNull |-> IsNull, read |-> Read,
                                  wrote |-> St = EFI_SUCCESS]]
  /\ UNCHANGED << inputs, verifyLocals >>

\* lines 88-117, called with Size NULL or pointing to the caller's variable
GetFmpPayloadHeaderSize ==
  \E SizeIsNull \in BOOLEAN :
    AccessorReturns("HeaderSize",
      GetFmpPayloadHeaderSizeStatus(Header, FmpPayloadSize, Payload, SizeIsNull),
      Payload.HeaderSize, SizeIsNull,
      GetFmpPayloadHeaderSizeReads(Header, FmpPayloadSize, Payload, SizeIsNull))

\* GetFmpPayloadHeaderVersion returning the neighbouring field
GetFmpPayloadHeaderVersionOtherField ==
  \E VersionIsNull \in BOOLEAN :
    AccessorReturns("FwVersion",
      GetFmpPayloadHeaderVersionStatus(Header, FmpPayloadSize, Payload, VersionIsNull),
      Payload.LowestSupportedVersion, VersionIsNull,
      GetFmpPayloadHeaderVersionReads(Header, FmpPayloadSize, Payload, VersionIsNull))

\* lines 133-162
GetFmpPayloadHeaderVersion ==
  \E VersionIsNull \in BOOLEAN :
    AccessorReturns("FwVersion",
      GetFmpPayloadHeaderVersionStatus(Header, FmpPayloadSize, Payload, VersionIsNull),
      Payload.FwVersion, VersionIsNull,
      GetFmpPayloadHeaderVersionReads(Header, FmpPayloadSize, Payload, VersionIsNull))

\* lines 178-207
GetFmpPayloadHeaderLowestSupportedVersion ==
  \E LsvIsNull \in BOOLEAN :
    AccessorReturns("LowestSupportedVersion",
      GetFmpPayloadHeaderLowestSupportedVersionStatus(Header, FmpPayloadSize,
                                                      Payload, LsvIsNull),
      Payload.LowestSupportedVersion, LsvIsNull,
      GetFmpPayloadHeaderLowestSupportedVersionReads(Header, FmpPayloadSize,
                                                     Payload, LsvIsNull))

\* how far below the top of the address space, and above zero, the buffers
\* and sizes of the accessor runs reach
Window == 18

\* buffer addresses: NULL, low addresses, and the last Window addresses
Addresses ==
  {NULL, 1, BufferAddress} \cup (UintnModulus - Window) .. (UintnModulus - 1)

\* declared payload sizes: everything up to Window, one entry more than the
\* fixed header, and the sizes that wrap a buffer at BufferAddress
PayloadSizes ==
  0 .. Window
    \cup { SizeofFmpPayloadHeader + SizeofFwDependency + 1,
           UintnModulus - BufferAddress - 1, UintnModulus - BufferAddress,
           UintnModulus - 1 }

\* HeaderSize fields of the accessor runs
AccessorHeaderSizes ==
  { 0, SizeofFmpPayloadHeader - 1, SizeofFmpPayloadHeader,
    SizeofFmpPayloadHeader + 1, SizeofFmpPayloadHeader + SizeofFwDependency,
    2 ^ Uint32Bits - 1 }

InitAcc ==
  /\ Header \in Addresses
  /\ VerifiedIsNull = FALSE
  /\ FmpPayloadSize \in PayloadSizes
  /\ \E v \in { <<2, 1>>, <<1, 2>> } :
       Payload \in [ Signature : {FMP_PAYLOAD_HEADER_SIGNATURE, OtherSignature},
                     HeaderSize : AccessorHeaderSizes,
                     FwVersion : {v[1]},
                     LowestSupportedVersion : {v[2]} ]
  /\ DependencyList = <<>>
  /\ System = [c \in Components |-> NotInstalled]
  /\ VerifyLocalsInit
  /\ AccessorsInit

NextAcc ==
  \/ GetFmpPayloadHeaderSize
  \/ GetFmpPayloadHeaderVersion
  \/ GetFmpPayloadHeaderLowestSupportedVersion

SpecAcc == InitAcc /\ [][NextAcc]_vars

(***************************************************************************)
(* All four operations on one payload: the caller reads the header with    *)
(* the accessors and then has the dependencies verified                    *)
(***************************************************************************)
\* declared payload sizes: too small for the fixed header, just large enough
\* for it, and one entry more
CallerPayloadSizes ==
  { SizeofFmpPayloadHeader - 1, SizeofFmpPayloadHeader + 1,
    SizeofFmpPayloadHeader + SizeofFwDependency + 1 }

\* the entries of these payloads name one component and differ in the
\* required flag
CallerDependencies ==
  { e \in FwDependencies :
      /\ ComponentOf(e) = [FmpInstance |-> 1, ImageIndex |-> 1]
      /\ e.RequiredVersionInSystem = 1
      /\ e.Flags \in {0, FW_DEPENDENCY_FLAG_REQUIRED} }

InitCalls ==
  /\ Header \in {NULL, BufferAddress}
  /\ VerifiedIsNull \in BOOLEAN
  /\ FmpPayloadSize \in CallerPayloadSizes
  /\ System \in { sys \in [Components -> Installations] :
                    ~sys[[FmpInstance |-> 2, ImageIndex |-> 1]].found }
  /\ \/ /\ Header = NULL
        /\ Payload = [Signature |-> 0, HeaderSize |-> 0, FwVersion |-> 0,
                      LowestSupportedVersion |-> 0]
        /\ DependencyList = <<>>
     \/ /\ Header # NULL
        /\ Payload \in [ Signature : {FMP_PAYLOAD_HEADER_SIGNATURE, OtherSignature},
                         HeaderSize : HeaderSizes,
                         FwVersion : {2},
                         LowestSupportedVersion : {1} ]
        /\ DependencyList
             \in SeqsOfLen(CallerDependencies, EntriesIn(Payload.HeaderSize))
  /\ VerifyLocalsInit
  /\ AccessorsInit

\* the accessors are called before VerifyFmpPayloadDependencies is entered
CallAccessor == pc = "start" /\ NextAcc

NextCalls == CallAccessor \/ Next

SpecCalls == InitCalls /\ [][NextCalls]_vars

(***************************************************************************)
(* VerifyFmpPayloadDependencies on entries with flag bits the library does  *)
(* not define and with non-zero Reserved bytes                              *)
(***************************************************************************)
\* the lowest Flags bit above the two defined flags
UndefinedFlag == 2 * FW_DEPENDENCY_FLAG_MATCH_EXACT_VERSION

\* FW_DEPENDENCY values with any Flags over three bits and any Reserved bit
FlagDependencies ==
  [ FmpInstance : { c.FmpInstance : c \in Components },
    RequiredVersionInSystem : RequiredVersions,
    ImageIndex : { c.ImageIndex : c \in Components },
    Reserved : {0, 1},
    Flags : 0 .. (2 * UndefinedFlag - 1) ]

\* headers holding one entry and two entries
FlagHeaderSizes ==
  { SizeofFmpPayloadHeader + n * SizeofFwDependency : n \in 1 .. 2 }

InitFlags ==
  /\ Header = BufferAddress
  /\ VerifiedIsNull = FALSE
  /\ FmpPayloadSize = UintnModulus - 1
  /\ System \in [Components -> Installations]
  /\ Payload \in [ Signature : {FMP_PAYLOAD_HEADER_SIGNATURE},
                   HeaderSize : FlagHeaderSizes,
                   FwVersion : {1},
                   LowestSupportedVersion : {1} ]
  /\ DependencyList \in SeqsOfLen(FlagDependencies, EntriesIn(Payload.HeaderSize))
  /\ VerifyLocalsInit
  /\ AccessorsInit

SpecFlags == InitFlags /\ [][Next]_vars

(***************************************************************************)
(* Vocabulary of the properties                                            *)
(***************************************************************************)
Done == pc = "done"

SignatureCorrect ==
  Header # NULL /\ Payload.Signature = FMP_PAYLOAD_HEADER_SIGNATURE

\* correct signature, HeaderSize - 16 a non-negative multiple of 24
StructurallyValid ==
  /\ SignatureCorrect
  /\ Payload.HeaderSize - 16 >= 0
  /\ (Payload.HeaderSize - 16) % 24 = 0

\* the number of entries a structurally valid header declares
EntryCount == (Payload.HeaderSize - 16) \div 24

RequiredBit(e) == e.Flags % 2 = 1

ExactMatchBit(e) == (e.Flags \div 2) % 2 = 1

\* entry i passes: the component is absent and not required, or it is present
\* with a version that meets the requirement
EntryPasses(i) ==
  LET e == DependencyList[i]
      now == System[ComponentOf(e)]
  IN \/ ~now.found /\ ~RequiredBit(e)
     \/ /\ now.found
        /\ now.Version >= e.RequiredVersionInSystem
        /\ ExactMatchBit(e) => now.Version = e.RequiredVersionInSystem

AllEntriesPass == \A i \in 1 .. EntryCount : EntryPasses(i)

\* the first entry that does not pass (EntryCount + 1 when all pass)
FirstFailing ==
  IF AllEntriesPass THEN EntryCount + 1
  ELSE CHOOSE k \in 1 .. EntryCount :
         ~EntryPasses(k) /\ \A j \in 1 .. (k - 1) : EntryPasses(j)

StoppedOnFailingEntry ==
  /\ Done /\ StructurallyValid
  /\ Calls # <<>>
  /\ ~EntryPasses(Calls[Len(Calls)])

C2_FailingEntryReturnsSuccess ==
  StoppedOnFailingEntry => (Result = EFI_SUCCESS /\ Verified = "FALSE")

\* the walk stopped on a required, absent second entry after a first entry
\* whose lookup failed without the required flag
C2_Witness ==
  /\ StoppedOnFailingEntry
  /\ Calls = << 1, 2 >>
  /\ ~System[ComponentOf(DependencyList[1])].found
  /\ ~System[ComponentOf(DependencyList[2])].found
  /\ RequiredBit(DependencyList[2])
  /\ Result = EFI_SUCCESS

(***************************************************************************)
(* C3: when every entry of a structurally valid header passes, the function *)
(* returns EFI_SUCCESS with *Verified TRUE; a failed lookup of an entry     *)
(* without the required flag never changes the returned status.             *)
(***************************************************************************)
C3_AllPassReturnsSuccess ==
  (Done /\ StructurallyValid /\ AllEntriesPass) =>
    (Result = EFI_SUCCESS /\ Verified = "TRUE")

(***************************************************************************)
(* C4: every descriptor obtained from GetFmpAndDescriptor is released       *)
(* before the next call of GetFmpAndDescriptor and before the function      *)
(* returns: at most one descriptor is outstanding, none at return.          *)
(***************************************************************************)
C4_DescriptorsReleased ==
  /\ Cardinality(Pool) <= 1
  /\ (pc = "while") => Pool = {}
  /\ Done => Pool = {}

(***************************************************************************)
(* C5: GetFmpAndDescriptor is called once per entry in list order up to and *)
(* including the first failing entry and for no entry after it; with a      *)
(* failing entry *Verified is FALSE.                                        *)
(***************************************************************************)
\* GetFmpAndDescriptor is only ever called for the next entry in order, and
\* never past the first failing entry
CallsInOrder ==
  /\ Len(Calls) <= EntryCount
  /\ Len(Calls) <= FirstFailing
  /\ \A n \in 1 .. Len(Calls) : Calls[n] = n

DependencySectionMisSized ==
  /\ SignatureCorrect
  /\ Payload.HeaderSize - 16 > 0
  /\ (Payload.HeaderSize - 16) % 24 # 0

NoDependencyBytes == SignatureCorrect /\ Payload.HeaderSize = 16

C7_NoDependenciesSatisfied ==
  NoDependencyBytes =>
    /\ Calls = <<>>
    /\ Done => (Result = EFI_SUCCESS /\ Verified = "TRUE")

\* a finished run on a 16-byte header on a system with no component installed
C7_Witness ==
  /\ Done /\ NoDependencyBytes
  /\ \A c \in Components : ~System[c].found
  /\ Verified = "TRUE"

(***************************************************************************)
(* C8: an accessor returns EFI_INVALID_PARAMETER when the HeaderSize field  *)
(* exceeds the declared payload size.                                       *)
(***************************************************************************)
C8_HeaderSizeWithinPayload ==
  \A a \in Accessors :
    (Ret[a] # "NONE" /\ Payload.HeaderSize > FmpPayloadSize) =>
      Ret[a] = EFI_INVALID_PARAMETER

(***************************************************************************)
(* C9: when the declared payload size is smaller than the 16-byte fixed     *)
(* header, every accessor returns EFI_INVALID_PARAMETER and leaves the      *)
(* caller's output variable unwritten.                                      *)
(***************************************************************************)
C9_ShortPayloadRejected ==
  FmpPayloadSize < 16 =>
    \A a \in Accessors :
      /\ Ret[a] \in {"NONE", EFI_INVALID_PARAMETER}
      /\ ~Out[a].written

\* all three accessors were called on a 15-byte payload that holds the
\* correct signature and a plausible HeaderSize, at an address that does not
\* wrap
C9_Witness ==
  /\ FmpPayloadSize = 15
  /\ Header = BufferAddress
  /\ Payload.Signature = FMP_PAYLOAD_HEADER_SIGNATURE
  /\ Payload.HeaderSize = 16
  /\ \A a \in Accessors : Ret[a] = EFI_INVALID_PARAMETER

(***************************************************************************)
(* C10: with UINTN addresses (arithmetic modulo 2^UintnBits) an accessor    *)
(* succeeds only if Header + 16 does not wrap and lies strictly below the   *)
(* unwrapped end Header + FmpPayloadSize of the payload, which does not     *)
(* wrap either; in particular FmpPayloadSize = 16 is rejected.              *)
(***************************************************************************)
C10_SuccessImpliesHeaderInside ==
  \A a \in Accessors :
    Ret[a] = EFI_SUCCESS =>
      /\ Header + 16 < UintnModulus
      /\ Header + FmpPayloadSize < UintnModulus
      /\ Header + 16 < Header + FmpPayloadSize
      /\ FmpPayloadSize # 16

\* all three accessors rejected a payload whose fixed header wraps the address
\* space although its wrapped end lies below the wrapped end of the payload
C10_Witness ==
  /\ Header # NULL
  /\ Header + 16 >= UintnModulus
  /\ ToUintn(Header + 16) < ToUintn(Header + FmpPayloadSize)
  /\ Payload.Signature = FMP_PAYLOAD_HEADER_SIGNATURE
  /\ Payload.HeaderSize >= 16
  /\ \A a \in Accessors : Ret[a] = EFI_INVALID_PARAMETER

(***************************************************************************)
(* C11: on a buffer whose signature differs from 'MSS1' every accessor and  *)
(* VerifyFmpPayloadDependencies return EFI_INVALID_PARAMETER and write no   *)
(* output; VerifyFmpPayloadDependencies never calls GetFmpAndDescriptor.    *)
(***************************************************************************)
SignatureDiffers ==
  Header # NULL /\ Payload.Signature # SIGNATURE_32(77, 83, 83, 49)

C11_WrongSignatureRejected ==
  SignatureDiffers =>
    /\ \A a \in Accessors :
         /\ Ret[a] \in {"NONE", EFI_INVALID_PARAMETER}
         /\ ~Out[a].written
    /\ pc \in {"start", "done"}
    /\ Calls = <<>>
    /\ Verified = "UNWRITTEN"
    /\ Done => Result = EFI_INVALID_PARAMETER

\* all four operations returned on a buffer with another signature whose
\* other fields are those of a valid one-entry payload
C11_Witness ==
  /\ SignatureDiffers /\ Done
  /\ ~VerifiedIsNull
  /\ Payload.HeaderSize = 16 + 24
  /\ FmpPayloadSize > Payload.HeaderSize
  /\ \A a \in Accessors : Ret[a] = EFI_INVALID_PARAMETER /\ ~Call[a].outIsNull

(***************************************************************************)
(* C12: with the correct signature and HeaderSize < 16 (a negative number   *)
(* of dependency bytes) VerifyFmpPayloadDependencies returns                *)
(* EFI_INVALID_PARAMETER and does not report *Verified TRUE.                *)
(***************************************************************************)
C12_NegativeDependencyBytesInvalid ==
  (Done /\ SignatureCorrect /\ Payload.HeaderSize < 16) =>
    (Result = EFI_INVALID_PARAMETER /\ Verified # "TRUE")

(***************************************************************************)
(* C13: round trip.  A buffer with the correct signature, HeaderSize = S    *)
(* >= 16 and FwVersion = V whose declared payload size is at least S makes  *)
(* GetFmpPayloadHeaderSize return EFI_SUCCESS with S and                    *)
(* GetFmpPayloadHeaderVersion return EFI_SUCCESS with V.                    *)
(***************************************************************************)
\* a buffer inside the address space that holds a header of HeaderSize >= 16
\* and is declared at least as large as that header
RoundTripPayload ==
  /\ SignatureCorrect
  /\ Payload.HeaderSize >= 16
  /\ FmpPayloadSize >= Payload.HeaderSize
  /\ Header + FmpPayloadSize <= UintnModulus

\* the accessor's last call passed an output variable, returned EFI_SUCCESS
\* and left the header's field of that name in the variable
ReturnedField(a) ==
  (Ret[a] # "NONE" /\ ~Call[a].outIsNull) =>
    /\ Ret[a] = EFI_SUCCESS
    /\ Out[a] = [written |-> TRUE, value |-> Payload[a]]

\* the claim as stated
C13_RoundTrip ==
  RoundTripPayload => (ReturnedField("HeaderSize") /\ ReturnedField("FwVersion"))

\* C13 as amended: the round trip holds when, in addition, the declared
\* payload size is greater than 16 and the payload ends below the top of the
\* address space
C13_RoundTripStrictlyInside ==
  (RoundTripPayload /\ FmpPayloadSize > 16
     /\ Header + FmpPayloadSize < UintnModulus) =>
    (ReturnedField("HeaderSize") /\ ReturnedField("FwVersion"))

\* both accessors returned the fields of a 40-byte header in a 41-byte payload
C13_Witness ==
  /\ RoundTripPayload
  /\ Payload.HeaderSize = 16 + 24 /\ FmpPayloadSize = 16 + 24 + 1
  /\ Payload.FwVersion = 2
  /\ Ret["HeaderSize"] = EFI_SUCCESS /\ Out["HeaderSize"].value = 16 + 24
  /\ Ret["FwVersion"] = EFI_SUCCESS /\ Out["FwVersion"].value = 2

Permuted(f) == [ i \in 1 .. Len(DependencyList) |-> DependencyList[f[i]] ]

\* what the finished run returned, stored and looked up
Outcome == [Result |-> Result, Verified |-> Verified, Calls |-> Calls]

C15_VerdictOrderIndependent ==
  StructurallyValid =>
    /\ Done => Outcome = VerifyOutcome(Header, Payload, DependencyList, System)
    /\ \A f \in Permutations(1 .. Len(DependencyList)) :
         VerifyOutcome(Header, Payload, Permuted(f), System).Verified
           = VerifyOutcome(Header, Payload, DependencyList, System).Verified

\* a finished run over two different entries of which only the second fails:
\* the walk looked both up, while in the other order it stops after one lookup
C15_Witness ==
  /\ Done /\ StructurallyValid /\ EntryCount = 2
  /\ DependencyList[1] # DependencyList[2]
  /\ EntryPasses(1) /\ ~EntryPasses(2)
  /\ Calls = << 1, 2 >>
  /\ Verified = "FALSE"
  /\ VerifyOutcome(Header, Payload, << DependencyList[2], DependencyList[1] >>,
                   System).Calls = << 1 >>

(***************************************************************************)
(* C16: called with a NULL buffer or a NULL output, each of the three       *)
(* accessors and VerifyFmpPayloadDependencies returns                       *)
(* EFI_INVALID_PARAMETER, having read no header field and stored nothing.   *)
(***************************************************************************)
C16_NullArgumentsRejected ==
  /\ \A a \in Accessors :
       (Ret[a] # "NONE" /\ (Header = NULL \/ Call[a].outIsNull)) =>
         /\ Ret[a] = EFI_INVALID_PARAMETER
         /\ Call[a].read = {}
         /\ ~Call[a].wrote
  /\ (Header = NULL \/ VerifiedIsNull) =>
       /\ ReadEnd = 0
       /\ pc \in {"start", "done"}
       /\ Verified = "UNWRITTEN"
       /\ Done => Result = EFI_INVALID_PARAMETER

(***************************************************************************)
(* C17: Flags bits other than REQUIRED and MATCH_EXACT_VERSION and the      *)
(* Reserved byte of the entries do not influence the verdict, the status    *)
(* returned or the sequence of lookups: every run ends as the run on the    *)
(* same entries with those bits and bytes cleared.                          *)
(***************************************************************************)
\* entry e with Reserved and every undefined Flags bit cleared
DefinedBitsOnly(e) ==
  [e EXCEPT !.Reserved = 0, !.Flags = e.Flags % UndefinedFlag]

DefinedBitsOnlyList ==
  [ i \in 1 .. Len(DependencyList) |-> DefinedBitsOnly(DependencyList[i]) ]

C17_UndefinedBitsIgnored ==
  Done =>
    /\ Outcome = VerifyOutcome(Header, Payload, DependencyList, System)
    /\ Outcome = VerifyOutcome(Header, Payload, DefinedBitsOnlyList, System)

\* a finished run over two entries: the first carries the undefined bit next
\* to MATCH_EXACT_VERSION and finds exactly the required version, the second
\* carries the undefined bit and a Reserved byte next to REQUIRED and finds
\* nothing; the walk stops there with FALSE
C17_Witness ==
  /\ Done /\ EntryCount = 2
  /\ DependencyList[1].Flags = UndefinedFlag + FW_DEPENDENCY_FLAG_MATCH_EXACT_VERSION
  /\ System[ComponentOf(DependencyList[1])].found
  /\ System[ComponentOf(DependencyList[1])].Version
       = DependencyList[1].RequiredVersionInSystem
  /\ DependencyList[2].Flags = UndefinedFlag + FW_DEPENDENCY_FLAG_REQUIRED
  /\ DependencyList[2].Reserved = 1
  /\ ~System[ComponentOf(DependencyList[2])].found
  /\ Calls = << 1, 2 >>
  /\ Verified = "FALSE"

(***************************************************************************)
(* C18: once GetFmpPayloadHeaderSize has returned EFI_SUCCESS for a payload *)
(* of FmpPayloadSize bytes, VerifyFmpPayloadDependencies reads only bytes   *)
(* at offsets below FmpPayloadSize.                                         *)
(***************************************************************************)
C18_ReadsInsidePayload ==
  (Ret["HeaderSize"] = EFI_SUCCESS) => ReadEnd <= FmpPayloadSize

(***************************************************************************)
(* C19: on the same buffer and declared size the three accessors return the *)
(* same status, and none reads a header field unless the fixed header lies  *)
(* inside the declared payload.                                             *)
(***************************************************************************)
\* the accessor's last call passed an output variable
CalledWithOutput(a) == Ret[a] # "NONE" /\ ~Call[a].outIsNull

\* the 16 bytes of the fixed header end inside the address space and before
\* the end of the declared payload
FixedHeaderInsidePayload ==
  /\ Header # NULL
  /\ Header + 16 < UintnModulus
  /\ Header + 16 < (Header + FmpPayloadSize) % UintnModulus

C19_AccessorsValidateAlike ==
  /\ \A a, b \in Accessors :
       (CalledWithOutput(a) /\ CalledWithOutput(b)) => Ret[a] = Ret[b]
  /\ \A a \in Accessors :
       (Call[a].read # {}) => FixedHeaderInsidePayload

\* all three accessors were called on a 16-byte payload holding a correct
\* fixed header: each returned EFI_INVALID_PARAMETER and read nothing
C19_Witness ==
  /\ SignatureCorrect
  /\ Payload.HeaderSize = 16 /\ FmpPayloadSize = 16
  /\ Header + FmpPayloadSize < UintnModulus
  /\ \A a \in Accessors :
       /\ CalledWithOutput(a)
       /\ Ret[a] = EFI_INVALID_PARAMETER
       /\ Call[a].read = {}

====
